---- MODULE Spec2Model ----
(***************************************************************************)
(* The client-side device session of realdds (dds_device::impl):           *)
(*   - the lifecycle OFFLINE / INITIALIZING / READY and the handlers of    *)
(*     the initialization notifications (specification Spec),              *)
(*   - the correlation of control requests with their replies             *)
(*     (specifications CtlSpec and CtlLive),                               *)
(*   - the handling of set-option and set-filter replies, with the set     *)
(*     callback of the embedded temporal filter (specification ReplySpec). *)
(* Sources: src/third-party/realdds/src/dds-device-impl.cpp,               *)
(*          src/src/dds/rs-dds-embedded-temporal-filter.cpp                *)
(***************************************************************************)
EXTENDS Integers, Sequences, FiniteSets, TLC

VARIABLES
    \* ---- dds_device::impl members
    state,                        \* _state
    n_streams_expected,           \* _n_streams_expected
    device_header_received,       \* _device_header_received
    device_options_received,      \* _device_options_received
    stream_header_received,       \* _stream_header_received : map name -> bool
    stream_options_received,      \* _stream_options_received : map name -> bool
    streams,                      \* _streams : map name -> stream object or null
    options,                      \* _options : list of device-level options
    extrinsics_map,               \* _extrinsics_map
    server_guid,                  \* _server_guid
    stream_options_for_init,      \* _stream_options_for_init
    stream_filters_for_init,      \* _stream_filters_for_init
    stream_intrinsics_for_init,   \* _stream_intrinsics_for_init
    notifications_reader,         \* readers made for _notifications_reader and not released
    metadata_reader,              \* _metadata_reader: "none" | "created" | "running"
    device_settings_metadata,     \* _device_settings "metadata": "object" | "disabled"
    hung,                         \* the notification thread ran past end() in set_state
    control_writer,               \* _control_writer: how many writers were created (0: null)
    reply_timeout_ms,             \* _reply_timeout_ms, in clock ticks
    \* ---- history of the notification handlers
    last_result,                  \* what the last dispatched notification did
    first_fragment,               \* per stream: which of header/options was applied first
    \* ---- reply correlation (write_control_message / on_notification)
    replies,                      \* _replies : map sequence number -> null or reply
    writer_sequence,              \* last sequence number handed out by the control writer
    pc,                           \* per caller: position in write_control_message
    this_sequence_number,         \* per caller: local of write_control_message
    elapsed,                      \* per caller: time spent in wait_for (0 outside a wait)
    reply,                        \* per caller: *reply after the call returned
    dispatched,                   \* sequence numbers whose reply went through on_notification
    unmatched,                    \* own replies that found no slot (check_reply branch)
    controls,                     \* the controls published so far, by sequence number
    filter_cache,                 \* cached option value of the temporal filter of "Depth"
    open_profiles_list,           \* _open_profiles_list
    running,                      \* per thread: the session operation it is inside of
    last_applied,                 \* the value of the last document applied to an option
    watcher_options,              \* options_watcher::_options : id -> last known value
    on_values_changed,            \* the number of subscriptions of _on_values_changed
    destructing,                  \* _destructing
    paused,                       \* _paused
    updater,                      \* _updater : no thread, a running one, a finished one
    mutex,                        \* the holder of options_watcher::_mutex
    updater_pc,                   \* where the updater thread is
    owner_pc,                     \* where the thread that uses the watcher is
    cursor,                       \* the option update_options is at, 0 outside a poll
    updated_options               \* the result of the last update_options of the loop

session_vars ==
    << state, n_streams_expected, device_header_received, device_options_received,
       stream_header_received, stream_options_received, streams, options,
       extrinsics_map, server_guid, stream_options_for_init, stream_filters_for_init,
       stream_intrinsics_for_init, notifications_reader, metadata_reader,
       device_settings_metadata, hung, control_writer, reply_timeout_ms >>

history_vars == << last_result, first_fragment >>

ctl_vars ==
    << replies, writer_sequence, pc, this_sequence_number, elapsed, reply,
       dispatched, unmatched, controls, filter_cache, open_profiles_list, running,
       last_applied >>

\* what the control calls on options and filters leave alone
app_vars == << open_profiles_list, running >>

watcher_vars ==
    << watcher_options, on_values_changed, destructing, paused, updater, mutex,
       updater_pc, owner_pc, cursor, updated_options >>

\* the device session, which the options watcher has no part in
device_vars == << session_vars, history_vars, ctl_vars >>

vars == << session_vars, history_vars, ctl_vars, watcher_vars >>

----------------------------------------------------------------------------
(* Bounds of the model *)

MaxNStreams == 2        \* largest n-streams a device-header announces
MaxOptions == 2         \* cap on the length of the device option list
NumCallers == 2         \* application threads issuing control requests
MaxSequence == 2        \* cap on the control writer's sequence numbers
ReplyTimeout == 2       \* _reply_timeout_ms, in clock ticks

----------------------------------------------------------------------------
(* std::map< std::string, T > as a function on its key set *)

EmptyMap == [k \in {} |-> k]

MapSet(m, k, v) == [x \in DOMAIN m \cup {k} |-> IF x = k THEN v ELSE m[x]]

\* operator[]: the entry is created with the default value when absent
MapTouch(m, k, default) == IF k \in DOMAIN m THEN m ELSE MapSet(m, k, default)

MapErase(m, k) == [x \in DOMAIN m \ {k} |-> m[x]]

MapSize(m) == Cardinality(DOMAIN m)

\* the stream names the device may use, in std::string order
NameOrder == << "Color", "Depth" >>

StreamNames == { NameOrder[i] : i \in 1..Len(NameOrder) }

\* the keys of a map in iteration order
SortedKeys(m) == SelectSeq(NameOrder, LAMBDA k : k \in DOMAIN m)

----------------------------------------------------------------------------
(* What the device publishes.  Each stream name has one header and one      *)
(* stream-options document; the documents of the two names differ in the    *)
(* keys they carry.                                                         *)

\* stream-header "type"
StreamType(name) ==
    CASE name = "Color" -> "color"
      [] name = "Depth" -> "depth"

\* stream-header "metadata-enabled"
MetadataEnabled(name) == name = "Depth"

\* stream-options carries an "options" key
HasOptions(name) == name \in { "Color", "Depth" }

\* stream-options carries an "embedded-filters" key
HasFilters(name) == name = "Depth"

\* stream-options carries an "intrinsics" key
HasIntrinsics(name) == name = "Depth"

\* a stream-header is well formed ("ok"), names a type that is none of
\* depth/ir/color/motion/confidence ("bad-type"), or has a default-profile-index
\* that is not below the number of profiles ("bad-index")
HeaderVariants == { "ok", "bad-type", "bad-index" }

\* device-options "options"
DeviceOptionsPayload == << [name |-> "IP address", value |-> 0] >>

\* device-header "extrinsics"
ExtrinsicsPayload == [p \in { << "Depth", "Color" >> } |-> "extrinsics"]

----------------------------------------------------------------------------
(* The session as a record, so that a handler is a function from the        *)
(* session before to the sessions after.                                    *)

\* a null std::shared_ptr< dds_stream >
NoStream == [type |-> "null"]

Session ==
    [ state |-> state,
      n_streams_expected |-> n_streams_expected,
      device_header_received |-> device_header_received,
      device_options_received |-> device_options_received,
      stream_header_received |-> stream_header_received,
      stream_options_received |-> stream_options_received,
      streams |-> streams,
      options |-> options,
      extrinsics_map |-> extrinsics_map,
      server_guid |-> server_guid,
      stream_options_for_init |-> stream_options_for_init,
      stream_filters_for_init |-> stream_filters_for_init,
      stream_intrinsics_for_init |-> stream_intrinsics_for_init,
      notifications_reader |-> notifications_reader,
      metadata_reader |-> metadata_reader,
      device_settings_metadata |-> device_settings_metadata,
      hung |-> hung,
      control_writer |-> control_writer,
      reply_timeout_ms |-> reply_timeout_ms,
      last_result |-> last_result,
      first_fragment |-> first_fragment ]

Becomes(s) ==
    /\ state' = s.state
    /\ n_streams_expected' = s.n_streams_expected
    /\ device_header_received' = s.device_header_received
    /\ device_options_received' = s.device_options_received
    /\ stream_header_received' = s.stream_header_received
    /\ stream_options_received' = s.stream_options_received
    /\ streams' = s.streams
    /\ options' = s.options
    /\ extrinsics_map' = s.extrinsics_map
    /\ server_guid' = s.server_guid
    /\ stream_options_for_init' = s.stream_options_for_init
    /\ stream_filters_for_init' = s.stream_filters_for_init
    /\ stream_intrinsics_for_init' = s.stream_intrinsics_for_init
    /\ notifications_reader' = s.notifications_reader
    /\ metadata_reader' = s.metadata_reader
    /\ device_settings_metadata' = s.device_settings_metadata
    /\ hung' = s.hung
    /\ control_writer' = s.control_writer
    /\ reply_timeout_ms' = s.reply_timeout_ms
    /\ last_result' = s.last_result
    /\ first_fragment' = s.first_fragment

\* the state the member initializers give; the header is not part of the sources
InitialState == "OFFLINE"

----------------------------------------------------------------------------
(* reset, the readers *)

\* A fragment buffered before the connection was lost is told apart from one
\* delivered in the current connection.
Aged(buffer) == [k \in DOMAIN buffer |-> IF buffer[k] = "fresh" THEN "stale" ELSE buffer[k]]

\* as create_notifications_reader, a reader made whether or not one exists
create_notifications_reader_Always(s) == [s EXCEPT !.notifications_reader = @ + 1]

\* as reset, the control writer released with the readers
reset_DropsControlWriter(s) ==
    [s EXCEPT !.server_guid = "nil",
              !.n_streams_expected = 0,
              !.streams = EmptyMap,
              !.stream_header_received = EmptyMap,
              !.stream_options_received = EmptyMap,
              !.device_header_received = FALSE,
              !.device_options_received = FALSE,
              !.options = << >>,
              !.extrinsics_map = EmptyMap,
              !.metadata_reader = "none",
              !.control_writer = 0]

reset(s) ==
    [s EXCEPT !.server_guid = "nil",
              !.n_streams_expected = 0,
              !.streams = EmptyMap,
              !.stream_header_received = EmptyMap,
              !.stream_options_received = EmptyMap,
              !.device_header_received = FALSE,
              !.device_options_received = FALSE,
              !.options = << >>,
              !.extrinsics_map = EmptyMap,
              !.metadata_reader = "none"]

create_notifications_reader(s) ==
    IF s.notifications_reader > 0 THEN s ELSE [s EXCEPT !.notifications_reader = 1]

create_metadata_reader(s) ==
    IF s.metadata_reader # "none" THEN s ELSE [s EXCEPT !.metadata_reader = "created"]

----------------------------------------------------------------------------
(* set_state *)

\* for( stream = begin; stream != end; stream++ ) if( ! stream->second ) stream = erase( stream );
\* pos is the iterator's place in the key order, Len + 1 is end().  erase returns
\* the iterator of the next entry and the loop increments it once more; when
\* erase returned end() that increment is undefined: the thread never comes back,
\* or the iterator lands on any entry or on end().
RECURSIVE EraseLoop(_, _)
EraseLoop(m, pos) ==
    LET keys == SortedKeys(m) IN
    IF pos > Len(keys) THEN { [streams |-> m, hung |-> FALSE] }
    ELSE IF m[keys[pos]] # NoStream THEN EraseLoop(m, pos + 1)
    ELSE LET erased == MapErase(m, keys[pos])
             size == MapSize(erased)
         IN IF pos <= size
            THEN EraseLoop(erased, pos + 1)
            ELSE { [streams |-> erased, hung |-> TRUE] }
                 \cup UNION { EraseLoop(erased, p) : p \in 1..(size + 1) }

\* Remove stream if object not created
RemoveStreamsWithoutObject(m) == EraseLoop(m, 1)

\* the metadata reader on the way to READY
RunMetadataReader(s) ==
    IF s.metadata_reader = "none" THEN s
    ELSE IF s.device_settings_metadata = "disabled"
         THEN [s EXCEPT !.metadata_reader = "none"]
         ELSE [s EXCEPT !.metadata_reader = "running"]

\* as set_state, without the return when the state is the one asked for
set_state_NoEarlyReturn(s, new_state) ==
    IF new_state = "OFFLINE"
    THEN LET stopped == [s EXCEPT !.notifications_reader = 0]
             cleared == reset(stopped)
         IN { [cleared EXCEPT !.state = "OFFLINE",
                              !.stream_options_for_init = Aged(@),
                              !.stream_filters_for_init = Aged(@),
                              !.stream_intrinsics_for_init = Aged(@),
                              !.first_fragment = EmptyMap] }
    ELSE IF new_state = "INITIALIZING"
    THEN { [create_notifications_reader(s) EXCEPT !.state = "INITIALIZING"] }
    ELSE LET md == RunMetadataReader(s)
         IN { IF o.hung
              THEN [md EXCEPT !.streams = o.streams, !.hung = TRUE]
              ELSE [md EXCEPT !.streams = o.streams, !.state = "READY"]
              : o \in RemoveStreamsWithoutObject(md.streams) }

\* set_state( new_state ): the sessions it may leave
set_state(s, new_state) ==
    IF new_state = s.state THEN { s }
    ELSE IF new_state = "OFFLINE"
    THEN LET stopped == [s EXCEPT !.notifications_reader = 0]
             cleared == reset(stopped)
         IN { [cleared EXCEPT !.state = "OFFLINE",
                              !.stream_options_for_init = Aged(@),
                              !.stream_filters_for_init = Aged(@),
                              !.stream_intrinsics_for_init = Aged(@),
                              !.first_fragment = EmptyMap] }
    ELSE IF new_state = "INITIALIZING"
    THEN { [create_notifications_reader(s) EXCEPT !.state = "INITIALIZING"] }
    ELSE LET md == RunMetadataReader(s)
         IN { IF o.hung
              THEN [md EXCEPT !.streams = o.streams, !.hung = TRUE]
              ELSE [md EXCEPT !.streams = o.streams, !.state = "READY"]
              : o \in RemoveStreamsWithoutObject(md.streams) }

all_initialization_data_received(s) ==
    /\ s.device_header_received
    /\ s.device_options_received
    /\ MapSize(s.stream_header_received) = s.n_streams_expected
    /\ MapSize(s.stream_options_received) = s.n_streams_expected

\* if( all_initialization_data_received() ) set_state( state_t::READY );
ReadyIfAllReceived(s) ==
    IF all_initialization_data_received(s) THEN set_state(s, "READY") ELSE { s }

----------------------------------------------------------------------------
(* The stream objects and the buffered fragments *)

\* std::make_shared< dds_..._stream >( stream_name, sensor_name )
NewStream(type) ==
    [ type |-> type, profiles |-> FALSE, metadata |-> FALSE,
      options |-> "none", filters |-> "none", intrinsics |-> "none" ]

init_stream_options_if_possible(s, name) ==
    IF name \in DOMAIN s.stream_options_for_init /\ s.streams[name] # NoStream
    THEN [s EXCEPT !.streams[name].options = s.stream_options_for_init[name],
                   !.stream_options_for_init = MapErase(@, name)]
    ELSE s

init_stream_filters_if_possible(s, name) ==
    IF name \in DOMAIN s.stream_filters_for_init /\ s.streams[name] # NoStream
    THEN [s EXCEPT !.streams[name].filters = s.stream_filters_for_init[name],
                   !.stream_filters_for_init = MapErase(@, name)]
    ELSE s

\* a buffered json that is missing stays buffered
init_stream_intrinsics_if_possible(s, name) ==
    IF /\ name \in DOMAIN s.stream_intrinsics_for_init
       /\ s.streams[name] # NoStream
       /\ s.stream_intrinsics_for_init[name] # "missing"
    THEN [s EXCEPT !.streams[name].intrinsics = s.stream_intrinsics_for_init[name],
                   !.stream_intrinsics_for_init = MapErase(@, name)]
    ELSE s
\* as ApplyBufferedFragments, the buffered embedded filters forgotten
ApplyBufferedFragments_NoFilters(s, name) ==
    init_stream_intrinsics_if_possible(init_stream_options_if_possible(s, name), name)

\* Handle out of order stream-options message
ApplyBufferedFragments(s, name) ==
    init_stream_intrinsics_if_possible(
        init_stream_filters_if_possible(
            init_stream_options_if_possible(s, name), name), name)

Result(s, what) == [s EXCEPT !.last_result = what]

First(s, name, what) == [s EXCEPT !.first_fragment = MapTouch(@, name, what)]

----------------------------------------------------------------------------
(* The handlers of the initialization notifications.  A handler that throws *)
(* keeps what it wrote before the throw: on_notification catches and logs.  *)

\* n: "n-streams"; with_extrinsics: the document carries "extrinsics"
on_device_header(s, n, with_extrinsics) ==
    IF s.state # "INITIALIZING" THEN { Result(s, "discarded") }
    ELSE LET s1 == [s EXCEPT !.device_header_received = TRUE,
                             !.server_guid = "server",
                             !.n_streams_expected = n,
                             !.extrinsics_map =
                                 IF with_extrinsics
                                 THEN [p \in DOMAIN @ \cup DOMAIN ExtrinsicsPayload |->
                                          IF p \in DOMAIN ExtrinsicsPayload
                                          THEN ExtrinsicsPayload[p] ELSE @[p]]
                                 ELSE @]
         IN ReadyIfAllReceived(Result(s1, "applied"))
\* as on_device_options, without the check of the state
on_device_options_AnyState(s, with_options) ==
    LET s1 == [s EXCEPT !.device_options_received = TRUE,
                        !.options = IF with_options
                                    THEN @ \o DeviceOptionsPayload ELSE @]
    IN ReadyIfAllReceived(Result(s1, "applied"))

\* with_options: the document carries "options"
on_device_options(s, with_options) ==
    IF s.state # "INITIALIZING" THEN { Result(s, "discarded") }
    ELSE LET s1 == [s EXCEPT !.device_options_received = TRUE,
                             !.options = IF with_options
                                         THEN @ \o DeviceOptionsPayload ELSE @]
         IN ReadyIfAllReceived(Result(s1, "applied"))

\* the part of on_stream_header after the stream object was made
StreamHeaderCreated(s, name, variant) ==
    LET enabled == MetadataEnabled(name)
        s1 == IF enabled
              THEN [create_metadata_reader(s) EXCEPT !.streams[name].metadata = TRUE]
              ELSE s
    IN IF variant = "bad-index"
       THEN { Result(s1, "rejected") }      \* default profile index is out of bounds
       ELSE LET s2 == [s1 EXCEPT !.streams[name].profiles = TRUE,
                                 !.stream_header_received[name] = TRUE]
                s3 == ApplyBufferedFragments(First(s2, name, "header"), name)
            IN ReadyIfAllReceived(Result(s3, "applied"))

\* as on_stream_header, a header already received taken as a new one
on_stream_header_NoDuplicateCheck(s, name, variant) ==
    IF s.state # "INITIALIZING" THEN { Result(s, "discarded") }
    ELSE IF MapSize(s.stream_header_received) >= s.n_streams_expected
    THEN { Result(s, "rejected") }
    ELSE LET s1 == [s EXCEPT !.stream_header_received = MapTouch(@, name, FALSE)]
             s2 == [s1 EXCEPT !.streams = MapTouch(@, name, NoStream)]
         IN IF variant = "bad-type"
            THEN { Result(s2, "rejected") }
            ELSE StreamHeaderCreated(
                     [s2 EXCEPT !.streams[name] = NewStream(StreamType(name))],
                     name, variant)

\* as on_stream_header, the number of headers not compared with the expected one
on_stream_header_NoCountCheck(s, name, variant) ==
    IF s.state # "INITIALIZING" THEN { Result(s, "discarded") }
    ELSE LET s1 == [s EXCEPT !.stream_header_received = MapTouch(@, name, FALSE)]
         IN IF s1.stream_header_received[name]
            THEN { Result(s1, "duplicate") }
            ELSE LET s2 == [s1 EXCEPT !.streams = MapTouch(@, name, NoStream)]
                 IN IF variant = "bad-type"
                    THEN { Result(s2, "rejected") }
                    ELSE StreamHeaderCreated(
                             [s2 EXCEPT !.streams[name] = NewStream(StreamType(name))],
                             name, variant)

on_stream_header(s, name, variant) ==
    IF s.state # "INITIALIZING" THEN { Result(s, "discarded") }
    ELSE IF MapSize(s.stream_header_received) >= s.n_streams_expected
    THEN { Result(s, "rejected") }          \* more streams than expected
    ELSE LET s1 == [s EXCEPT !.stream_header_received = MapTouch(@, name, FALSE)]
         IN IF s1.stream_header_received[name]
            THEN { Result(s1, "duplicate") }
            ELSE LET s2 == [s1 EXCEPT !.streams = MapTouch(@, name, NoStream)]
                 IN IF variant = "bad-type"
                    THEN { Result(s2, "rejected") }   \* unknown type
                    ELSE StreamHeaderCreated(
                             [s2 EXCEPT !.streams[name] = NewStream(StreamType(name))],
                             name, variant)

on_stream_options(s, name) ==
    IF s.state # "INITIALIZING" THEN { Result(s, "discarded") }
    ELSE LET s1 == [s EXCEPT !.streams = MapTouch(@, name, NoStream),
                             !.stream_options_received = MapTouch(@, name, FALSE)]
         IN IF s1.stream_options_received[name]
            THEN { Result(s1, "duplicate") }
            ELSE LET s2 == IF HasOptions(name)
                           THEN init_stream_options_if_possible(
                                    [s1 EXCEPT !.stream_options_for_init =
                                                   MapSet(@, name, "fresh")], name)
                           ELSE s1
                     s3 == IF HasFilters(name)
                           THEN init_stream_filters_if_possible(
                                    [s2 EXCEPT !.stream_filters_for_init =
                                                   MapSet(@, name, "fresh")], name)
                           ELSE s2
                     s4 == init_stream_intrinsics_if_possible(
                               [s3 EXCEPT !.stream_intrinsics_for_init =
                                              MapSet(@, name, IF HasIntrinsics(name)
                                                              THEN "fresh" ELSE "missing")],
                               name)
                     s5 == [s4 EXCEPT !.stream_options_received[name] = TRUE]
                 IN ReadyIfAllReceived(Result(First(s5, name, "options"), "applied"))

----------------------------------------------------------------------------
(* Actions of the session *)

SessionInit ==
    /\ state = InitialState
    /\ n_streams_expected = 0
    /\ device_header_received = FALSE
    /\ device_options_received = FALSE
    /\ stream_header_received = EmptyMap
    /\ stream_options_received = EmptyMap
    /\ streams = EmptyMap
    /\ options = << >>
    /\ extrinsics_map = EmptyMap
    /\ server_guid = "nil"
    /\ stream_options_for_init = EmptyMap
    /\ stream_filters_for_init = EmptyMap
    /\ stream_intrinsics_for_init = EmptyMap
    /\ notifications_reader = 1
    /\ metadata_reader = "none"
    /\ device_settings_metadata \in { "object", "disabled" }
    /\ hung = FALSE
    /\ control_writer = 1
    /\ reply_timeout_ms = ReplyTimeout
    /\ last_result = "none"
    /\ first_fragment = EmptyMap

\* the thread of the application, the thread of the discovery callbacks and the
\* thread of the notifications reader
Threads == { "application", "discovery", "notifications" }

NoOperation == [op |-> "none"]

CtlIdle ==
    /\ replies = EmptyMap
    /\ writer_sequence = 0
    /\ pc = [c \in 1..NumCallers |-> "idle"]
    /\ this_sequence_number = [c \in 1..NumCallers |-> 0]
    /\ elapsed = [c \in 1..NumCallers |-> 0]
    /\ reply = [c \in 1..NumCallers |-> [id |-> "null"]]
    /\ dispatched = {}
    /\ unmatched = {}
    /\ controls = EmptyMap
    /\ filter_cache = 0
    /\ running = [thread \in Threads |-> NoOperation]
    /\ last_applied = {}

\* no open call was made
NothingOpen == open_profiles_list = << >>

\* the ids of the options a watcher is given, in the order of std::map< rs2_option, ... >
OptionOrder == << "A", "B" >>

\* options_watcher( update_interval ): nothing registered, nobody subscribed, no thread
WatcherConstructed ==
    /\ watcher_options = EmptyMap
    /\ on_values_changed = 0
    /\ destructing = FALSE
    /\ paused = FALSE
    /\ updater = "none"
    /\ mutex = "free"
    /\ updater_pc = "none"
    /\ owner_pc = "idle"
    /\ cursor = 0
    /\ updated_options = EmptyMap

Init == SessionInit /\ CtlIdle /\ NothingOpen /\ WatcherConstructed

\* on_discovery_lost
DiscoveryLost ==
    /\ ~hung
    /\ \E s \in set_state(Result(Session, "none"), "OFFLINE") : Becomes(s)
    /\ UNCHANGED << ctl_vars, watcher_vars >>

\* on_discovery_restored
DiscoveryRestored ==
    /\ ~hung
    /\ \E s \in set_state(Result(Session, "none"), "INITIALIZING") : Becomes(s)
    /\ UNCHANGED << ctl_vars, watcher_vars >>

\* the notification thread takes a document; none is taken without a reader
Dispatching == notifications_reader > 0 /\ ~hung

DeviceHeader ==
    /\ Dispatching
    /\ \E n \in 0..MaxNStreams, with_extrinsics \in BOOLEAN :
          \E s \in on_device_header(Session, n, with_extrinsics) : Becomes(s)
    /\ UNCHANGED << ctl_vars, watcher_vars >>

DeviceOptions ==
    /\ Dispatching
    /\ \E with_options \in BOOLEAN :
          /\ with_options /\ state = "INITIALIZING"
                => Len(options) + Len(DeviceOptionsPayload) <= MaxOptions
          /\ \E s \in on_device_options(Session, with_options) : Becomes(s)
    /\ UNCHANGED << ctl_vars, watcher_vars >>

StreamHeaderOf(variants) ==
    /\ Dispatching
    /\ \E name \in StreamNames, variant \in variants :
          \E s \in on_stream_header(Session, name, variant) : Becomes(s)
    /\ UNCHANGED << ctl_vars, watcher_vars >>

StreamHeader == StreamHeaderOf(HeaderVariants)

StreamOptions ==
    /\ Dispatching
    /\ \E name \in StreamNames :
          \E s \in on_stream_options(Session, name) : Becomes(s)
    /\ UNCHANGED << ctl_vars, watcher_vars >>

InitNotification == DeviceHeader \/ DeviceOptions \/ StreamHeader \/ StreamOptions

Next == DiscoveryLost \/ DiscoveryRestored \/ InitNotification

Spec == Init /\ [][Next]_vars

----------------------------------------------------------------------------
(* calibration-changed, which is handled in every state *)

\* on_calibration_changed for a document with intrinsics (as an array) of the
\* named streams.  The loop calls stream->name() on every entry of _streams; on
\* an entry without an object that is a null dereference, after which the
\* notification thread is gone or has read garbage and goes on.
on_calibration_changed(s, names) ==
    LET changed ==
           [s EXCEPT !.streams =
               [k \in DOMAIN @ |->
                   IF @[k] # NoStream /\ k \in names /\ @[k].intrinsics # "none"
                   THEN [@[k] EXCEPT !.intrinsics = "fresh"]
                   ELSE @[k]]]
    IN IF \E k \in DOMAIN s.streams : s.streams[k] = NoStream
       THEN { [s EXCEPT !.hung = TRUE], Result(changed, "calibration-changed") }
       ELSE { Result(changed, "calibration-changed") }

CalibrationChanged ==
    /\ Dispatching
    /\ \E names \in SUBSET StreamNames :
          \E s \in on_calibration_changed(Session, names) : Becomes(s)
    /\ UNCHANGED << ctl_vars, watcher_vars >>

CalibrationNext == Next \/ CalibrationChanged

CalibrationSpec == Init /\ [][CalibrationNext]_vars

----------------------------------------------------------------------------
(* Control requests and their replies: write_control_message on the         *)
(* application threads, on_notification on the notification thread.         *)

Callers == 1..NumCallers

\* the value the device reports in a reply (the cached one starts at 0)
ReplyValues == { 1 }

NoReply == [id |-> "null"]

\* the reply to a set-option control: "sample" is [origin guid, sequence number]
ReplyDocuments ==
    [ id : { "set-option" }, origin : { "self", "other" }, sequence : 1..MaxSequence,
      status : { "ok", "error" }, option_name : { DeviceOptionsPayload[1].name },
      value : ReplyValues, wellformed : { TRUE } ]

\* the replies to set-option and set-filter controls, with two values the
\* device may report; one that is not well formed lacks its "value" (set-option)
\* or its "name" / "options" (set-filter).  Replies to the controls of other
\* participants are successful ones, and one sequence number stands for theirs.
AnyReplyDocuments ==
    { j \in [ id : { "set-option", "set-filter", "query-option", "query-options" },
              origin : { "self", "other" },
              sequence : 1..MaxSequence, status : { "ok", "error" },
              option_name : { DeviceOptionsPayload[1].name },
              value : { 1, 2 }, wellformed : BOOLEAN ] :
        /\ ~j.wellformed => j.value = 1 /\ j.status = "ok"
        /\ j.status = "error" => j.value = 2
        /\ j.origin = "self" => j.id \in { "set-option", "set-filter" }
        /\ j.origin = "other" => j.sequence = 1 /\ j.status = "ok" /\ j.wellformed }

\* the replies to open-streams controls, and documents of that id (which has no
\* handler) from elsewhere
OpenReplyDocuments ==
    [ id : { "open-streams" }, origin : { "self", "other" }, sequence : 1..MaxSequence,
      status : { "ok", "error" }, option_name : { DeviceOptionsPayload[1].name },
      value : ReplyValues, wellformed : { TRUE } ]

\* as HandlerOf, an id without a handler given to on_set_option
HandlerOf_DefaultsToSetOption(id) ==
    CASE id = "query-options" -> "on_query_options"
      [] id = "set-filter" -> "on_set_filter"
      [] OTHER -> "on_set_option"

\* _notification_handlers.find( id ), for the ids of replies and of query-options
HandlerOf(id) ==
    CASE id \in { "set-option", "query-option" } -> "on_set_option"
      [] id = "query-options" -> "on_query_options"
      [] id = "set-filter" -> "on_set_filter"
      [] OTHER -> "none"

\* option->set_value( value_j ) on the first option of that name
SetCachedValue(opts, option_name, value) ==
    LET found == { i \in 1..Len(opts) : opts[i].name = option_name }
    IN IF found = {} THEN opts      \* option not found: throws, nothing written
       ELSE LET first == CHOOSE i \in found : \A j \in found : i <= j
            IN [opts EXCEPT ![first].value = value]

\* the device options after the handler of a set-option / query-option reply
\* as on_set_option, the status of the reply not looked at
on_set_option_IgnoresStatus(current_state, opts, j) ==
    IF current_state # "READY" THEN opts
    ELSE IF ~j.wellformed THEN opts
    ELSE SetCachedValue(opts, j.option_name, j.value)

\* as on_set_option, the cached value left for the caller to write
on_set_option_NotApplied(current_state, opts, j) == opts

\* as on_set_option, without the check of is_ready
on_set_option_AnyState(current_state, opts, j) ==
    IF j.status # "ok" THEN opts
    ELSE IF ~j.wellformed THEN opts
    ELSE SetCachedValue(opts, j.option_name, j.value)

on_set_option(current_state, opts, j) ==
    IF current_state # "READY" THEN opts
    ELSE IF j.status # "ok" THEN opts       \* check_reply: we don't care about errors
    ELSE IF ~j.wellformed THEN opts         \* throws "missing value"
    ELSE SetCachedValue(opts, j.option_name, j.value)

\* as on_query_options, the values of the document not written
on_query_options_NotApplied(current_state, opts, j) == opts

\* the device options after the handler of query-options (device-level value)
on_query_options(current_state, opts, j) ==
    IF current_state # "READY" THEN opts
    ELSE IF j.status # "ok" THEN opts       \* check_reply throws
    ELSE IF ~j.wellformed THEN opts         \* throws "missing option-values"
    ELSE SetCachedValue(opts, j.option_name, j.value)

\* the stream the temporal filter belongs to
FilterStream == "Depth"

\* the cached value of the filter's option after the handler of a set-filter
\* reply.  A stream entry without an object is dereferenced by the handler: the
\* value is then whatever the build leaves there.
on_set_filter(current_state, strs, cache, j) ==
    IF current_state # "READY" THEN { cache }
    ELSE IF j.status # "ok" THEN { cache }
    ELSE IF FilterStream \notin DOMAIN strs THEN { cache }     \* throws "not found"
    ELSE IF strs[FilterStream] = NoStream THEN { cache } \cup { 1, 2 }
    ELSE IF ~j.wellformed THEN { cache }    \* throws "missing name" / "missing filter_params"
    ELSE IF strs[FilterStream].filters = "none" THEN { cache }  \* throws "not found"
    ELSE { j.value }                        \* filter->set_options( filter_params_j )

\* the handler of the reply leaves by an exception
HandlerThrows(current_state, opts, strs, j) ==
    LET handler == HandlerOf(j.id)
        missing == \A i \in 1..Len(opts) : opts[i].name # j.option_name
    IN /\ current_state = "READY"
       /\ \/ handler = "on_set_option" /\ j.status = "ok" /\ (~j.wellformed \/ missing)
          \/ handler = "on_query_options"
                /\ (j.status # "ok" \/ ~j.wellformed \/ missing)
          \/ handler = "on_set_filter" /\ j.status = "ok"
                /\ (~j.wellformed \/ FilterStream \notin DOMAIN strs)
\* as FindReply, taking the first pending slot whatever its sequence number
FindReply_FirstSlot(slots, sequence_number) ==
    IF DOMAIN slots = {} THEN {}
    ELSE { CHOOSE k \in DOMAIN slots : \A other \in DOMAIN slots : k <= other }

\* _replies.find( sequence_number ): the slot found, if any
FindReply(slots, sequence_number) ==
    IF sequence_number \in DOMAIN slots THEN { sequence_number } ELSE {}

\* as ReplyPart, the origin of the reply not compared with the control writer
ReplyPart_AnyOrigin(slots, j, threw) ==
    IF FindReply(slots, j.sequence) = {} THEN slots
    ELSE [slots EXCEPT ![CHOOSE slot \in FindReply(slots, j.sequence) : TRUE] = j]

\* as ReplyPart, left out when the handler threw
ReplyPart_SkippedAfterThrow(slots, j, threw) ==
    IF threw \/ j.origin # "self" \/ FindReply(slots, j.sequence) = {} THEN slots
    ELSE [slots EXCEPT ![CHOOSE slot \in FindReply(slots, j.sequence) : TRUE] = j]

\* the second try block of on_notification: it is entered whether or not the
\* handler threw, and fills the slot of a reply to a control of this session
ReplyPart(slots, j, threw) ==
    IF j.origin # "self" \/ FindReply(slots, j.sequence) = {} THEN slots
    ELSE [slots EXCEPT ![CHOOSE slot \in FindReply(slots, j.sequence) : TRUE] = j]

\* as WaitTimedOut, any wake-up with an empty slot taken for the timeout
WaitTimedOut_AnyWakeUp(waited, slot) == slot = NoReply

\* wait_for( lock, _reply_timeout_ms, pred ) returned false
WaitTimedOut(waited, slot) == waited >= reply_timeout_ms /\ slot = NoReply

\* the values an application asks for
RequestValues == { 2 }

\* the caller is outside write_control_message and, after a set through the
\* temporal filter, past the filter's set callback
CallOver(c) ==
    \/ pc[c] \in { "idle", "rejected", "failed", "timedout", "done" }
    \/ pc[c] = "returned" /\ controls[this_sequence_number[c]].id = "set-option"
    \/ /\ pc[c] = "returned"
       /\ controls[this_sequence_number[c]].id = "open-streams"
       /\ controls[this_sequence_number[c]].reset

\* topics::flexible_msg( j ).write_to( *_control_writer )
write_to(c, control) ==
    /\ CallOver(c)
    /\ writer_sequence < MaxSequence
    /\ writer_sequence' = writer_sequence + 1
    /\ this_sequence_number' = [this_sequence_number EXCEPT ![c] = writer_sequence + 1]
    /\ controls' = MapSet(controls, writer_sequence + 1, control)
    /\ pc' = [pc EXCEPT ![c] = "published"]
    /\ reply' = [reply EXCEPT ![c] = NoReply]
    /\ elapsed' = [elapsed EXCEPT ![c] = 0]
    /\ UNCHANGED << session_vars, history_vars, replies, dispatched, unmatched,
                    filter_cache, last_applied, watcher_vars >>

\* set_option_value: a set-option control is published
Publish(c) ==
    /\ \E v \in RequestValues : write_to(c, [id |-> "set-option", value |-> v])
    /\ UNCHANGED app_vars

\* lock( _replies_mutex ); _replies[this_sequence_number]; wait_for releases the lock
InsertSlot(c) ==
    /\ pc[c] = "published"
    /\ replies' = MapTouch(replies, this_sequence_number[c], NoReply)
    /\ pc' = [pc EXCEPT ![c] = "waiting"]
    /\ UNCHANGED << session_vars, history_vars, writer_sequence, this_sequence_number,
                    elapsed, reply, dispatched, unmatched,
                    controls, filter_cache, app_vars, last_applied, watcher_vars >>

\* the predicate holds: *reply = move( actual_reply ); erase; check_reply( *reply )
WakeReply(c) ==
    /\ pc[c] = "waiting"
    /\ replies[this_sequence_number[c]] # NoReply
    /\ reply' = [reply EXCEPT ![c] = replies[this_sequence_number[c]]]
    /\ replies' = MapErase(replies, this_sequence_number[c])
    /\ pc' = [pc EXCEPT ![c] = IF replies[this_sequence_number[c]].status = "ok"
                                THEN "returned" ELSE "failed"]
    /\ elapsed' = [elapsed EXCEPT ![c] = 0]
    /\ UNCHANGED << session_vars, history_vars, writer_sequence, this_sequence_number,
                    dispatched, unmatched,
                    controls, filter_cache, app_vars, last_applied, watcher_vars >>

\* DDS_THROW( runtime_error, "timeout waiting for reply #" ... )
WakeTimeout(c) ==
    /\ pc[c] = "waiting"
    /\ WaitTimedOut(elapsed[c], replies[this_sequence_number[c]])
    /\ pc' = [pc EXCEPT ![c] = "timedout"]
    /\ UNCHANGED << session_vars, history_vars, replies, writer_sequence,
                    this_sequence_number, elapsed, reply, dispatched, unmatched,
                    controls, filter_cache, app_vars, last_applied, watcher_vars >>

\* time passes for every caller inside wait_for
Tick ==
    /\ \E c \in Callers : pc[c] = "waiting" /\ elapsed[c] < reply_timeout_ms
    /\ elapsed' = [c \in Callers |->
                      IF pc[c] = "waiting" /\ elapsed[c] < reply_timeout_ms
                      THEN elapsed[c] + 1 ELSE elapsed[c]]
    /\ UNCHANGED << session_vars, history_vars, replies, writer_sequence, pc,
                    this_sequence_number, reply, dispatched, unmatched,
                    controls, filter_cache, app_vars, last_applied, watcher_vars >>

\* the document is one whose handler writes its value to the cached device option
Applied(j) ==
    /\ state = "READY"
    /\ HandlerOf(j.id) \in { "on_set_option", "on_query_options" }
    /\ j.status = "ok"
    /\ j.wellformed
    /\ \E i \in 1..Len(options) : options[i].name = j.option_name

\* on_notification( j ) for a reply: first the handler, then the waiting caller.
\* The device answers a request of this session after it was published, once.
ReplyNotificationOf(j) ==
    /\ j.origin = "self" =>
          /\ j.sequence <= writer_sequence
          /\ j.sequence \notin dispatched
          /\ controls[j.sequence].id = j.id
    /\ CASE HandlerOf(j.id) = "on_set_option" ->
               /\ options' = on_set_option(state, options, j)
               /\ UNCHANGED filter_cache
         [] HandlerOf(j.id) = "on_query_options" ->
               /\ options' = on_query_options(state, options, j)
               /\ UNCHANGED filter_cache
         [] HandlerOf(j.id) = "on_set_filter" ->
               /\ filter_cache' \in on_set_filter(state, streams, filter_cache, j)
               /\ UNCHANGED options
         [] OTHER -> UNCHANGED << options, filter_cache >>
    /\ replies' = ReplyPart(replies, j, HandlerThrows(state, options, streams, j))
    /\ last_applied' = IF Applied(j) THEN { j.value } ELSE last_applied
    /\ IF j.origin = "self"
       THEN /\ dispatched' = dispatched \cup { j.sequence }
            /\ unmatched' = IF FindReply(replies, j.sequence) = {}
                            THEN unmatched \cup { j.sequence } ELSE unmatched
       ELSE UNCHANGED << dispatched, unmatched >>
    /\ UNCHANGED << state, n_streams_expected, device_header_received,
                    device_options_received, stream_header_received,
                    stream_options_received, streams, extrinsics_map, server_guid,
                    stream_options_for_init, stream_filters_for_init,
                    stream_intrinsics_for_init, notifications_reader, metadata_reader,
                    device_settings_metadata, hung, control_writer,
                    reply_timeout_ms, history_vars,
                    writer_sequence, pc, this_sequence_number, elapsed, reply,
                    controls, app_vars, watcher_vars >>

ReplyNotification == Dispatching /\ \E j \in ReplyDocuments : ReplyNotificationOf(j)

\* a READY session of a device without streams, its device options cached
ReadySession ==
    /\ state = "READY"
    /\ n_streams_expected = 0
    /\ device_header_received = TRUE
    /\ device_options_received = TRUE
    /\ stream_header_received = EmptyMap
    /\ stream_options_received = EmptyMap
    /\ streams = EmptyMap
    /\ options = DeviceOptionsPayload
    /\ extrinsics_map = EmptyMap
    /\ server_guid = "server"
    /\ stream_options_for_init = EmptyMap
    /\ stream_filters_for_init = EmptyMap
    /\ stream_intrinsics_for_init = EmptyMap
    /\ notifications_reader = 1
    /\ metadata_reader = "none"
    /\ device_settings_metadata = "object"
    /\ hung = FALSE
    /\ control_writer = 1
    /\ reply_timeout_ms = ReplyTimeout
    /\ last_result = "applied"
    /\ first_fragment = EmptyMap

CtlInit == ReadySession /\ CtlIdle /\ NothingOpen /\ WatcherConstructed

Wake(c) == WakeReply(c) \/ WakeTimeout(c)

CtlNext ==
    \/ \E c \in Callers : Publish(c) \/ InsertSlot(c) \/ Wake(c)
    \/ Tick
    \/ ReplyNotification

CtlSpec == CtlInit /\ [][CtlNext]_vars

\* time passes, and a caller whose wait is over is scheduled
CtlLive == CtlSpec /\ WF_vars(Tick) /\ \A c \in Callers : WF_vars(Wake(c))

----------------------------------------------------------------------------
(* Set-option and set-filter requests against a session with one stream;    *)
(* the set callback of rs_dds_embedded_temporal_filter                      *)
(* (src/src/dds/rs-dds-embedded-temporal-filter.cpp).                       *)

\* the set callback of a filter option: the value is validated, then
\* _set_ef_cb publishes the set-filter control and waits for the reply
FilterPublish(c) ==
    /\ \E v \in RequestValues : write_to(c, [id |-> "set-filter", value |-> v])
    /\ UNCHANGED app_vars

\* _dds_ef->set_options( option_with_value ), after _set_ef_cb returned
DelegateToFilter(c) ==
    /\ pc[c] = "returned"
    /\ controls[this_sequence_number[c]].id = "set-filter"
    /\ filter_cache' = controls[this_sequence_number[c]].value
    /\ pc' = [pc EXCEPT ![c] = "done"]
    /\ UNCHANGED << session_vars, history_vars, replies, writer_sequence,
                    this_sequence_number, elapsed, reply, dispatched, unmatched,
                    controls, app_vars, last_applied, watcher_vars >>

AnyReplyNotification ==
    Dispatching /\ \E j \in AnyReplyDocuments : ReplyNotificationOf(j)

\* a READY session of a device with the one stream "Depth"
ReadyWithDepth ==
    /\ state = "READY"
    /\ n_streams_expected = 1
    /\ device_header_received = TRUE
    /\ device_options_received = TRUE
    /\ stream_header_received = MapSet(EmptyMap, FilterStream, TRUE)
    /\ stream_options_received = MapSet(EmptyMap, FilterStream, TRUE)
    /\ streams = MapSet(EmptyMap, FilterStream,
                        [ type |-> "depth", profiles |-> TRUE, metadata |-> TRUE,
                          options |-> "fresh", filters |-> "fresh",
                          intrinsics |-> "fresh" ])
    /\ options = DeviceOptionsPayload
    /\ extrinsics_map = EmptyMap
    /\ server_guid = "server"
    /\ stream_options_for_init = EmptyMap
    /\ stream_filters_for_init = EmptyMap
    /\ stream_intrinsics_for_init = EmptyMap
    /\ notifications_reader = 1
    /\ metadata_reader = "running"
    /\ device_settings_metadata = "object"
    /\ hung = FALSE
    /\ control_writer = 1
    /\ reply_timeout_ms = ReplyTimeout
    /\ last_result = "applied"
    /\ first_fragment = MapSet(EmptyMap, FilterStream, "header")

ReplyInit == ReadyWithDepth /\ CtlIdle /\ NothingOpen /\ WatcherConstructed

ReplyNext ==
    \/ \E c \in Callers :
          Publish(c) \/ FilterPublish(c) \/ InsertSlot(c) \/ Wake(c) \/ DelegateToFilter(c)
    \/ Tick
    \/ AnyReplyNotification

ReplySpec == ReplyInit /\ [][ReplyNext]_vars

----------------------------------------------------------------------------
(* Set-option requests for an option whose handle the application got while  *)
(* the session was READY, across a loss and a recovery of the device        *)

StaleNext ==
    \/ DiscoveryLost
    \/ DiscoveryRestored
    \/ CtlNext

StaleSpec == CtlInit /\ [][StaleNext]_vars

----------------------------------------------------------------------------
(* set_state on the discovery thread and a handler on the notification       *)
(* thread, each from its first read of the session to its last write.  The  *)
(* session has one mutex, _replies_mutex, which neither path takes before   *)
(* it reads or writes _state and the cached data.                           *)

\* what is not the session and not the operations in progress
call_vars ==
    << replies, writer_sequence, pc, this_sequence_number, elapsed, reply,
       dispatched, unmatched, controls, filter_cache, open_profiles_list,
       last_applied, watcher_vars >>

\* the documents the notification thread may be handling
RaceDocuments ==
    [ op : { "on_device_header" }, n : 0..MaxNStreams ]
       \cup [ op : { "on_device_options" }, with_options : BOOLEAN ]

\* the handler of the document on a session
HandlerResult(document, s) ==
    IF document.op = "on_device_header"
    THEN on_device_header(s, document.n, FALSE)
    ELSE on_device_options(s, document.with_options)

\* the session a thread works on: the data as they are now, under the _state it
\* read when it entered (53, 777, 816); the other thread may have written since
AsSeen(thread) == [Session EXCEPT !.state = running[thread].seen]

\* set_state( new_state ) is entered and compares _state: no lock is taken (51-53)
EnterSetState ==
    /\ ~hung
    /\ running["discovery"] = NoOperation
    /\ \E new_state \in { "OFFLINE", "INITIALIZING" } :
          running' = [running EXCEPT !["discovery"] =
                         [op |-> "set_state", new_state |-> new_state, seen |-> state]]
    /\ UNCHANGED << session_vars, history_vars, call_vars >>

\* set_state does its work, writes _state and returns
LeaveSetState ==
    /\ running["discovery"].op = "set_state"
    /\ \E s \in set_state(Result(AsSeen("discovery"), "none"),
                          running["discovery"].new_state) :
          Becomes(IF running["discovery"].seen = running["discovery"].new_state
                  THEN [s EXCEPT !.state = state]      \* returned at 54
                  ELSE s)
    /\ running' = [running EXCEPT !["discovery"] = NoOperation]
    /\ UNCHANGED call_vars

\* on_notification calls the handler of a document, which compares _state: no
\* lock is taken (189-196, 777, 816)
EnterHandler ==
    /\ Dispatching
    /\ running["notifications"] = NoOperation
    /\ \E document \in RaceDocuments :
          running' = [running EXCEPT !["notifications"] =
                         [op |-> document.op, document |-> document, seen |-> state]]
    /\ UNCHANGED << session_vars, history_vars, call_vars >>

\* the handler does its work and returns; _state is written by set_state( READY )
LeaveHandler ==
    /\ running["notifications"].op \in { "on_device_header", "on_device_options" }
    /\ LET document == running["notifications"].document
       IN /\ /\ document.op = "on_device_options"
             /\ document.with_options
             /\ running["notifications"].seen = "INITIALIZING"
             => Len(options) + Len(DeviceOptionsPayload) <= MaxOptions
          /\ \E s \in HandlerResult(document, AsSeen("notifications")) :
                Becomes(IF s.state = "READY" /\ running["notifications"].seen # "READY"
                        THEN s
                        ELSE [s EXCEPT !.state = state])
    /\ running' = [running EXCEPT !["notifications"] = NoOperation]
    /\ UNCHANGED call_vars

RaceNext == EnterSetState \/ LeaveSetState \/ EnterHandler \/ LeaveHandler

RaceSpec == Init /\ [][RaceNext]_vars

----------------------------------------------------------------------------
(* Requests and documents of every kind while the device is lost and found  *)

NotReadyNext ==
    \/ DiscoveryLost
    \/ DiscoveryRestored
    \/ ReplyNext

NotReadySpec == ReplyInit /\ [][NotReadyNext]_vars

-----------------------------------------------------------------------------
(* the options watcher: a thread that polls the registered options          *)

MaxSubscribers == 2

\* what querying an option gives: a value, is_enabled() false, or an exception
Queries == { "v1", "v2", "disabled", "throws" }

\* an entry of _options whose p_last_known_value is empty
NoValue == "unset"

\* a default-constructed (null) json
NullValue == "null"

\* _on_values_changed.size() == 0 || _options.size() == 0 || _destructing
should_stop == on_values_changed = 0 \/ MapSize(watcher_options) = 0 \/ destructing

\* the registered options in the order update_options visits them
Registered == SelectSeq(OptionOrder, LAMBDA id : id \in DOMAIN watcher_options)

\* start(): a thread is made only when _updater is not joinable
start ==
    IF updater = "none"
    THEN updater' = "thread" /\ updater_pc' = "first_poll"
    ELSE UNCHANGED << updater, updater_pc >>

\* _stopping.notify_all(): only a thread that blocks in a wait is woken
notify_all(at) ==
    CASE at = "blocked_paused" -> "woken_paused"
      [] at = "blocked_interval" -> "woken_interval"
      [] OTHER -> at

\* the body of the loop of update_options for one option: the last known value afterwards
query_option(last, q) ==
    IF q = "throws"
    THEN IF last # NoValue /\ last # NullValue THEN NullValue ELSE last
    ELSE LET curr_val == IF q = "disabled" THEN NullValue ELSE q
         IN  IF last = NoValue \/ last # curr_val THEN curr_val ELSE last

\* register_option: the entry is replaced, without a last known value
RegisterOption(id) ==
    /\ owner_pc = "idle"
    /\ mutex = "free"
    /\ watcher_options' = MapSet(watcher_options, id, NoValue)
    /\ UNCHANGED << on_values_changed, destructing >>
    /\ IF ~should_stop' THEN start ELSE UNCHANGED << updater, updater_pc >>
    /\ UNCHANGED << paused, mutex, owner_pc, cursor, updated_options, device_vars >>

\* unregister_option: the entry is erased; stop() when nothing is left to watch
UnregisterOption(id) ==
    /\ owner_pc = "idle"
    /\ mutex = "free"
    /\ id \in DOMAIN watcher_options
    /\ watcher_options' = MapErase(watcher_options, id)
    /\ UNCHANGED << on_values_changed, destructing >>
    /\ owner_pc' = IF should_stop' THEN "stopping" ELSE "idle"
    /\ UNCHANGED << paused, updater, mutex, updater_pc, cursor, updated_options,
                    device_vars >>

Subscribe ==
    /\ owner_pc = "idle"
    /\ on_values_changed < MaxSubscribers
    /\ on_values_changed' = on_values_changed + 1
    /\ UNCHANGED << watcher_options, destructing >>
    /\ IF ~should_stop' THEN start ELSE UNCHANGED << updater, updater_pc >>
    /\ UNCHANGED << paused, mutex, owner_pc, cursor, updated_options, device_vars >>

\* the subscription subscribe() returned is dropped: nothing of the watcher is called
Unsubscribe ==
    /\ owner_pc = "idle"
    /\ on_values_changed > 0
    /\ on_values_changed' = on_values_changed - 1
    /\ UNCHANGED << watcher_options, destructing, paused, updater, mutex, updater_pc,
                    owner_pc, cursor, updated_options, device_vars >>

\* pause_options_watcher, as update_non_const calls it before the firmware update
Pause ==
    /\ owner_pc # "destroyed"
    /\ ~paused
    /\ paused' = TRUE
    /\ UNCHANGED << watcher_options, on_values_changed, destructing, updater, mutex,
                    updater_pc, owner_pc, cursor, updated_options, device_vars >>

\* unpause_options_watcher, called after the update whether it failed or not
Unpause ==
    /\ owner_pc # "destroyed"
    /\ paused
    /\ paused' = FALSE
    /\ updater_pc' = notify_all(updater_pc)
    /\ UNCHANGED << watcher_options, on_values_changed, destructing, updater, mutex,
                    owner_pc, cursor, updated_options, device_vars >>

\* ~options_watcher, up to the call of stop()
Destroy ==
    /\ owner_pc = "idle"
    /\ destructing' = TRUE
    /\ owner_pc' = "stopping"
    /\ UNCHANGED << watcher_options, on_values_changed, paused, updater, mutex,
                    updater_pc, cursor, updated_options, device_vars >>

\* stop(): notify_all without _mutex, then join when there is a thread
StopNotify ==
    /\ owner_pc = "stopping"
    /\ updater_pc' = notify_all(updater_pc)
    /\ owner_pc' = IF updater = "thread" THEN "joining"
                   ELSE IF destructing THEN "destroyed" ELSE "idle"
    /\ UNCHANGED << watcher_options, on_values_changed, destructing, paused, updater,
                    mutex, cursor, updated_options, device_vars >>

\* _updater.join() returns once the thread function has returned; nothing more is
\* called on a destroyed watcher
Join ==
    /\ owner_pc = "joining"
    /\ updater_pc = "ended"
    /\ updater' = "none"
    /\ updater_pc' = "none"
    /\ owner_pc' = IF destructing THEN "destroyed" ELSE "idle"
    /\ UNCHANGED << watcher_options, on_values_changed, destructing, paused, mutex,
                    cursor, updated_options, device_vars >>

\* update_options is entered: by the thread function first, by the loop afterwards
PollBegins ==
    /\ updater_pc \in { "first_poll", "poll" }
    /\ mutex = "free"
    /\ updated_options' = EmptyMap
    /\ IF should_stop
       THEN /\ updater_pc' = IF updater_pc = "first_poll" THEN "loop" ELSE "after_poll"
            /\ UNCHANGED << mutex, cursor >>
       ELSE /\ updater_pc' = IF updater_pc = "first_poll" THEN "first_query" ELSE "query"
            /\ mutex' = "updater"
            /\ cursor' = 1
    /\ UNCHANGED << watcher_options, on_values_changed, destructing, paused, updater,
                    owner_pc, device_vars >>

\* one turn of the loop of update_options; the result of the first poll is dropped
QueryOption(q) ==
    /\ updater_pc \in { "first_query", "query" }
    /\ LET id == Registered[cursor]
           last == watcher_options[id]
           now == query_option(last, q)
           updated == IF now # last
                      THEN MapSet(updated_options, id, [was |-> last, now |-> now])
                      ELSE updated_options
       IN  /\ watcher_options' = [watcher_options EXCEPT ![id] = now]
           /\ IF should_stop \/ cursor = Len(Registered)
              THEN /\ mutex' = "free"
                   /\ cursor' = 0
                   /\ updater_pc' = IF updater_pc = "first_query" THEN "loop"
                                                                  ELSE "after_poll"
                   /\ updated_options' = IF updater_pc = "first_query" THEN EmptyMap
                                                                        ELSE updated
              ELSE /\ cursor' = cursor + 1
                   /\ updated_options' = updated
                   /\ UNCHANGED << mutex, updater_pc >>
    /\ UNCHANGED << on_values_changed, destructing, paused, updater, owner_pc,
                    device_vars >>

\* while( ! should_stop() )
LoopTest ==
    /\ updater_pc = "loop"
    /\ updater_pc' = IF should_stop THEN "ended" ELSE "lock"
    /\ UNCHANGED << watcher_options, on_values_changed, destructing, paused, updater,
                    mutex, owner_pc, cursor, updated_options, device_vars >>

\* std::unique_lock lock( _mutex ), and again when a wait was woken
Lock ==
    /\ updater_pc \in { "lock", "woken_paused", "woken_interval" }
    /\ mutex = "free"
    /\ mutex' = "updater"
    /\ updater_pc' = IF updater_pc = "woken_interval" THEN "wait_interval"
                                                      ELSE "wait_paused"
    /\ UNCHANGED << watcher_options, on_values_changed, destructing, paused, updater,
                    owner_pc, cursor, updated_options, device_vars >>

\* the predicate of the first wait, and the test that follows the wait
WaitPaused ==
    /\ updater_pc = "wait_paused"
    /\ IF should_stop \/ ~paused
       THEN IF should_stop
            THEN updater_pc' = "ended" /\ mutex' = "free"
            ELSE updater_pc' = "wait_interval" /\ UNCHANGED mutex
       ELSE updater_pc' = "blocking_paused" /\ UNCHANGED mutex
    /\ UNCHANGED << watcher_options, on_values_changed, destructing, paused, updater,
                    owner_pc, cursor, updated_options, device_vars >>

\* the tests after the second wait; the lock is released on every way out
AfterInterval ==
    /\ mutex' = "free"
    /\ updater_pc' = IF should_stop THEN "ended"
                     ELSE IF paused THEN "loop" ELSE "poll"

\* the predicate of the second wait
WaitInterval ==
    /\ updater_pc = "wait_interval"
    /\ IF should_stop \/ paused
       THEN AfterInterval
       ELSE updater_pc' = "blocking_interval" /\ UNCHANGED mutex
    /\ UNCHANGED << watcher_options, on_values_changed, destructing, paused, updater,
                    owner_pc, cursor, updated_options, device_vars >>

\* the wait finds its predicate false: the lock is released and the thread blocks
Block ==
    /\ updater_pc \in { "blocking_paused", "blocking_interval" }
    /\ mutex' = "free"
    /\ updater_pc' = IF updater_pc = "blocking_paused" THEN "blocked_paused"
                                                       ELSE "blocked_interval"
    /\ UNCHANGED << watcher_options, on_values_changed, destructing, paused, updater,
                    owner_pc, cursor, updated_options, device_vars >>

\* _update_interval has passed: wait_for returns whatever the predicate gives
Timeout ==
    /\ updater_pc = "blocked_interval"
    /\ mutex = "free"
    /\ AfterInterval
    /\ UNCHANGED << watcher_options, on_values_changed, destructing, paused, updater,
                    owner_pc, cursor, updated_options, device_vars >>

\* a condition variable may wake a waiting thread that nobody notified
SpuriousWakeup ==
    /\ updater_pc \in { "blocked_paused", "blocked_interval" }
    /\ updater_pc' = notify_all(updater_pc)
    /\ UNCHANGED << watcher_options, on_values_changed, destructing, paused, updater,
                    mutex, owner_pc, cursor, updated_options, device_vars >>

\* after update_options in the loop: stop, or notify( updated_options )
AfterPoll ==
    /\ updater_pc = "after_poll"
    /\ updater_pc' = IF should_stop THEN "ended" ELSE "loop"
    /\ updated_options' = EmptyMap
    /\ UNCHANGED << watcher_options, on_values_changed, destructing, paused, updater,
                    mutex, owner_pc, cursor, device_vars >>

\* the steps of the updater thread that the scheduler takes when it can
UpdaterStep ==
    \/ PollBegins
    \/ \E q \in Queries : QueryOption(q)
    \/ LoopTest
    \/ Lock
    \/ WaitPaused
    \/ WaitInterval
    \/ Block
    \/ Timeout
    \/ AfterPoll

WatcherNext ==
    \/ \E i \in 1..Len(OptionOrder) : RegisterOption(OptionOrder[i])
    \/ \E id \in DOMAIN watcher_options : UnregisterOption(id)
    \/ Subscribe
    \/ Unsubscribe
    \/ Pause
    \/ Unpause
    \/ Destroy
    \/ StopNotify
    \/ Join
    \/ UpdaterStep
    \/ SpuriousWakeup

WatcherSpec == Init /\ [][WatcherNext]_vars

\* threads that can run do run, and a call that began goes on; a spurious wake-up,
\* like every call of the owner, may never come
WatcherLive == WatcherSpec /\ WF_vars(UpdaterStep) /\ WF_vars(StopNotify \/ Join)

----------------------------------------------------------------------------
(* open and close: the open-streams controls of the application thread       *)

\* the longest list of profiles given to one open or close call
MaxProfiles == 2

\* the longest list of open profiles followed
MaxOpen == 3

\* the caller that streams
AppThread == 1

\* stream profiles; profile->stream() of the last is null
DepthProfile == [stream |-> "Depth", format |-> "Z16"]
ColorProfile == [stream |-> "Color", format |-> "RGB8"]
OrphanProfile == [stream |-> "none", format |-> "Z16"]

Profiles == { DepthProfile, ColorProfile, OrphanProfile }

\* the arguments of open and close
ProfileLists == UNION { [1..n -> Profiles] : n \in 0..MaxProfiles }

\* _open_profiles_list as one earlier successful open call left it, if any
OpenedBefore ==
    { << >> } \cup { << profile >> : profile \in Profiles \ { OrphanProfile } }

\* add_profiles_to_json: the json filled, or the throw for a profile without a
\* stream or a second profile of one stream
RECURSIVE add_profiles_to_json(_, _)
add_profiles_to_json(profiles, profiles_as_json) ==
    IF profiles = << >> THEN [threw |-> FALSE, json |-> profiles_as_json]
    ELSE LET profile == Head(profiles)
         IN IF profile.stream = "none"
            THEN [threw |-> TRUE, json |-> profiles_as_json]
            ELSE IF profile.stream \in DOMAIN profiles_as_json
            THEN [threw |-> TRUE, json |-> profiles_as_json]
            ELSE add_profiles_to_json(Tail(profiles),
                                      MapSet(profiles_as_json, profile.stream, profile))

\* as erase_profile, nothing erased
erase_profile_None(list, profile) == list

\* find( begin, end, profile ) and erase( it ): the first occurrence goes
RECURSIVE erase_profile(_, _)
erase_profile(list, profile) ==
    IF list = << >> THEN list
    ELSE IF Head(list) = profile THEN Tail(list)
    ELSE << Head(list) >> \o erase_profile(Tail(list), profile)

\* the loop of close over its profiles
RECURSIVE erase_profiles(_, _)
erase_profiles(list, profiles) ==
    IF profiles = << >> THEN list
    ELSE erase_profiles(erase_profile(list, Head(profiles)), Tail(profiles))

\* the call throws before anything is published
Rejected(c) ==
    /\ CallOver(c)
    /\ pc' = [pc EXCEPT ![c] = "rejected"]
    /\ UNCHANGED << session_vars, history_vars, replies, writer_sequence,
                    this_sequence_number, elapsed, reply, dispatched, unmatched,
                    controls, filter_cache, last_applied, watcher_vars >>

\* open( profiles ) up to the publication of its control
Open(c) ==
    \E profiles \in ProfileLists :
        LET profiles_to_open == add_profiles_to_json(profiles, EmptyMap)
        IN /\ Len(open_profiles_list) + Len(profiles) <= MaxOpen
           /\ running' = [running EXCEPT !["application"] =
                             [op |-> "open", profiles |-> profiles]]
           /\ UNCHANGED open_profiles_list
           /\ IF profiles = << >> \/ profiles_to_open.threw
              THEN Rejected(c)
              ELSE write_to(c, [ id |-> "open-streams", reset |-> FALSE,
                                 stream_profiles |-> profiles_to_open.json ])

\* as OpenRecord, the profiles saved whatever write_control_message did
OpenRecord_AfterAnyWake(c) ==
    /\ pc[c] \in { "returned", "failed", "timedout" }
    /\ running["application"].op = "open"
    /\ open_profiles_list' = open_profiles_list \o running["application"].profiles
    /\ pc' = [pc EXCEPT ![c] = "done"]
    /\ UNCHANGED << session_vars, history_vars, replies, writer_sequence,
                    this_sequence_number, elapsed, reply, dispatched, unmatched,
                    controls, filter_cache, running, last_applied, watcher_vars >>

\* open, after write_control_message returned: _open_profiles_list.insert( end, ... )
OpenRecord(c) ==
    /\ pc[c] = "returned"
    /\ running["application"].op = "open"
    /\ open_profiles_list' = open_profiles_list \o running["application"].profiles
    /\ pc' = [pc EXCEPT ![c] = "done"]
    /\ UNCHANGED << session_vars, history_vars, replies, writer_sequence,
                    this_sequence_number, elapsed, reply, dispatched, unmatched,
                    controls, filter_cache, running, last_applied, watcher_vars >>

\* close( profiles ) up to the publication of its control
Close(c) ==
    \E profiles \in ProfileLists :
        LET remaining == erase_profiles(open_profiles_list, profiles)
            keep_open_profiles == add_profiles_to_json(remaining, EmptyMap)
        IN /\ running' = [running EXCEPT !["application"] =
                             [op |-> "close", profiles |-> profiles]]
           /\ open_profiles_list' = remaining
           /\ IF keep_open_profiles.threw
              THEN Rejected(c)
              ELSE write_to(c, [ id |-> "open-streams", reset |-> TRUE,
                                 stream_profiles |-> keep_open_profiles.json ])

OpenReplyNotification ==
    Dispatching /\ \E j \in OpenReplyDocuments : ReplyNotificationOf(j)

StreamingInit ==
    /\ ReadyWithDepth /\ CtlIdle /\ WatcherConstructed
    /\ open_profiles_list \in OpenedBefore

StreamingNext ==
    \/ Open(AppThread)
    \/ OpenRecord(AppThread)
    \/ Close(AppThread)
    \/ InsertSlot(AppThread)
    \/ Wake(AppThread)
    \/ Tick
    \/ OpenReplyNotification

StreamingSpec == StreamingInit /\ [][StreamingNext]_vars

----------------------------------------------------------------------------
(* Further specifications of the session *)

\* only well-formed stream headers are delivered
ValidNext ==
    \/ DiscoveryLost
    \/ DiscoveryRestored
    \/ DeviceHeader
    \/ DeviceOptions
    \/ StreamHeaderOf({ "ok" })
    \/ StreamOptions

ValidSpec == Init /\ [][ValidNext]_vars

\* INITIALIZING, right after a device-header announcing n streams and the
\* device-options were applied; only stream notifications follow
HandshakeInit ==
    /\ state = "INITIALIZING"
    /\ n_streams_expected \in 1..MaxNStreams
    /\ device_header_received = TRUE
    /\ device_options_received = TRUE
    /\ stream_header_received = EmptyMap
    /\ stream_options_received = EmptyMap
    /\ streams = EmptyMap
    /\ options = DeviceOptionsPayload
    /\ extrinsics_map = EmptyMap
    /\ server_guid = "server"
    /\ stream_options_for_init = EmptyMap
    /\ stream_filters_for_init = EmptyMap
    /\ stream_intrinsics_for_init = EmptyMap
    /\ notifications_reader = 1
    /\ metadata_reader = "none"
    /\ device_settings_metadata \in { "object", "disabled" }
    /\ hung = FALSE
    /\ control_writer = 1
    /\ reply_timeout_ms = ReplyTimeout
    /\ last_result = "applied"
    /\ first_fragment = EmptyMap
    /\ CtlIdle
    /\ NothingOpen
    /\ WatcherConstructed

HandshakeNext == StreamHeader \/ StreamOptions

HandshakeSpec == HandshakeInit /\ [][HandshakeNext]_vars

----------------------------------------------------------------------------
(* Properties of the session *)

\* the stream-header of k was applied to the end
HeaderApplied(k) == k \in DOMAIN stream_header_received /\ stream_header_received[k]

\* the stream-options of k were applied to the end
OptionsApplied(k) == k \in DOMAIN stream_options_received /\ stream_options_received[k]

Complete(k) == HeaderApplied(k) /\ OptionsApplied(k)

AllowedTransitions ==
    { << "OFFLINE", "INITIALIZING" >>, << "INITIALIZING", "READY" >> }
    \cup { << from, "OFFLINE" >> : from \in { "INITIALIZING", "READY" } }

\* C1: the state changes only along OFFLINE -> INITIALIZING, INITIALIZING -> READY
\* or any state -> OFFLINE; never OFFLINE -> READY, never READY -> INITIALIZING.
C1_OnlyLegalTransitions ==
    [][state' # state => << state, state' >> \in AllowedTransitions]_vars

\* C2: whenever the session is READY the device header and the device options
\* were applied, exactly n_streams_expected stream headers were applied to the
\* end, and the options of each of those streams were applied.
C2_ReadyHasAllAnnounced ==
    state = "READY" =>
        /\ device_header_received
        /\ device_options_received
        /\ Cardinality({ k \in StreamNames : HeaderApplied(k) }) = n_streams_expected
        /\ \A k \in StreamNames : HeaderApplied(k) => OptionsApplied(k)

\* C3: in every READY state every stream of the stream map had both its header
\* and its own stream-options applied.
C3_ReadyStreamsInitialized ==
    state = "READY" => \A k \in DOMAIN streams : Complete(k)

\* C4: from INITIALIZING with the device header (n streams) and the device
\* options applied, the session is READY exactly when n streams have their header
\* and their options applied, and then the stream map holds exactly n streams.
C4_ReadyExactlyWhenComplete ==
    /\ state = "READY" <=>
          Cardinality({ k \in StreamNames : Complete(k) }) = n_streams_expected
    /\ state = "READY" => MapSize(streams) = n_streams_expected

\* the stream a well-formed header and the stream-options of k make
CompleteStream(k) ==
    [ type |-> StreamType(k), profiles |-> TRUE, metadata |-> MetadataEnabled(k),
      options |-> IF HasOptions(k) THEN "fresh" ELSE "none",
      filters |-> IF HasFilters(k) THEN "fresh" ELSE "none",
      intrinsics |-> IF HasIntrinsics(k) THEN "fresh" ELSE "none" ]

\* C5: once both the header and the stream-options of a stream were applied, in
\* either order and whatever was dispatched in between, the stream object and the
\* fragment buffers of that name are the ones the two documents determine.
C5_OrderIndependent ==
    \A k \in StreamNames :
        Complete(k) =>
            /\ k \in DOMAIN streams
            /\ streams[k] = CompleteStream(k)
            /\ k \notin DOMAIN stream_options_for_init
            /\ k \notin DOMAIN stream_filters_for_init
            /\ IF HasIntrinsics(k)
               THEN k \notin DOMAIN stream_intrinsics_for_init
               ELSE /\ k \in DOMAIN stream_intrinsics_for_init
                    /\ stream_intrinsics_for_init[k] = "missing"

\* a stream whose options were applied before its header, and one the other way
C5_Witness ==
    /\ \E k \in StreamNames :
          Complete(k) /\ first_fragment[k] = "options" /\ HasFilters(k)
    /\ \E k \in StreamNames : Complete(k) /\ first_fragment[k] = "header"

\* C6: an initialization notification processed in OFFLINE or in READY leaves
\* the state, the expected stream count, the received flags, the stream map, the
\* device options, the extrinsics and the fragment buffers unchanged.
C6_DiscardedOutsideInitializing ==
    [][(state \in { "OFFLINE", "READY" } /\ InitNotification) =>
          UNCHANGED << state, n_streams_expected, device_header_received,
                       device_options_received, stream_header_received,
                       stream_options_received, streams, options, extrinsics_map,
                       stream_options_for_init, stream_filters_for_init,
                       stream_intrinsics_for_init >>]_vars

\* a notification was dispatched in READY, with streams and options cached
C6_Witness ==
    /\ state = "READY"
    /\ last_result = "discarded"
    /\ streams # EmptyMap
    /\ options # << >>

\* what reset is to clear, and the buffered fragments
SessionData ==
    << state, n_streams_expected, device_header_received, device_options_received,
       stream_header_received, stream_options_received, streams, options,
       extrinsics_map, stream_options_for_init, stream_filters_for_init,
       stream_intrinsics_for_init >>

\* a field of a stream was set from a fragment buffered before the last OFFLINE
StaleApplied(k) ==
    /\ k \in DOMAIN streams
    /\ streams[k] # NoStream
    /\ "stale" \in { streams[k].options, streams[k].filters, streams[k].intrinsics }

\* C15: right after any transition to OFFLINE the stream map, the device options,
\* the extrinsics, the received records and the three fragment buffers are empty,
\* and no stream ever holds a fragment buffered before the last OFFLINE.
C15_OfflineClearsAll ==
    /\ [][state # "OFFLINE" /\ state' = "OFFLINE" =>
             /\ streams' = EmptyMap
             /\ options' = << >>
             /\ extrinsics_map' = EmptyMap
             /\ stream_header_received' = EmptyMap
             /\ stream_options_received' = EmptyMap
             /\ stream_options_for_init' = EmptyMap
             /\ stream_filters_for_init' = EmptyMap
             /\ stream_intrinsics_for_init' = EmptyMap]_vars
    /\ [](\A k \in StreamNames : ~StaleApplied(k))

\* C16: over every sequence of transitions the control writer is the one the
\* constructor created and the reply timeout is the configured one.
C16_ControlWriterKept ==
    /\ control_writer = 1
    /\ reply_timeout_ms = ReplyTimeout

\* READY again after the connection was lost with a fragment buffered
C16_Witness ==
    /\ state = "READY"
    /\ \E k \in DOMAIN stream_options_for_init : stream_options_for_init[k] = "stale"

\* C18: the number of stream headers recorded as received never exceeds the
\* stream count of the last device-header.
C18_HeadersWithinExpected ==
    Cardinality({ k \in StreamNames : HeaderApplied(k) }) <= n_streams_expected

\* a stream-header for k is dispatched after the header of k was applied
DuplicateHeader(k) ==
    /\ Dispatching
    /\ HeaderApplied(k)
    /\ \E variant \in HeaderVariants :
          \E s \in on_stream_header(Session, k, variant) : Becomes(s)

\* a stream-options for k is dispatched after the stream-options of k were applied
DuplicateOptions(k) ==
    /\ Dispatching
    /\ OptionsApplied(k)
    /\ \E s \in on_stream_options(Session, k) : Becomes(s)

\* C19: a second stream-header or stream-options for a name whose first one was
\* applied leaves the stream objects, the fragment buffers and the received
\* records as they are.
C19_DuplicateIgnored ==
    [][\A k \in StreamNames :
          DuplicateHeader(k) \/ DuplicateOptions(k) => UNCHANGED SessionData]_vars

\* a duplicate was dispatched to a session holding a complete stream
C19_Witness ==
    /\ last_result = "duplicate"
    /\ \E k \in StreamNames : Complete(k) /\ streams[k] = CompleteStream(k)

\* C20: right after the transition to READY every entry of the stream map has a
\* stream object.
C20_NoStreamWithoutObject ==
    [][state # "READY" /\ state' = "READY" =>
          \A k \in DOMAIN streams' : streams'[k] # NoStream]_vars

\* C28: the session never has more than one notifications reader; a transition
\* to OFFLINE releases it and the transition OFFLINE -> INITIALIZING makes one.
C28_OneNotificationsReader ==
    /\ [](notifications_reader \in { 0, 1 })
    /\ [][state # "OFFLINE" /\ state' = "OFFLINE" => notifications_reader' = 0]_vars
    /\ [][state = "OFFLINE" /\ state' = "INITIALIZING" => notifications_reader' = 1]_vars

\* INITIALIZING again, with a reader, after a connection was lost
C28_Witness ==
    /\ state = "INITIALIZING"
    /\ notifications_reader = 1
    /\ \E k \in DOMAIN stream_options_for_init : stream_options_for_init[k] = "stale"

\* C29: the metadata reader is started only by the transition to READY and only
\* when a stream header with metadata enabled was applied since the last reset;
\* it never runs in INITIALIZING or OFFLINE, and a transition to OFFLINE
\* discards it.
C29_MetadataReaderOnlyInReady ==
    /\ [](metadata_reader = "running" => state = "READY")
    /\ [][metadata_reader # "running" /\ metadata_reader' = "running" =>
             /\ state # "READY" /\ state' = "READY"
             /\ \E k \in StreamNames :
                   /\ MetadataEnabled(k)
                   /\ k \in DOMAIN stream_header_received'
                   /\ stream_header_received'[k]]_vars
    /\ [][state # "OFFLINE" /\ state' = "OFFLINE" => metadata_reader' = "none"]_vars

----------------------------------------------------------------------------
(* Properties of the reply correlation *)

InCall(c) == pc[c] \in { "published", "waiting" }

\* C7: every caller that comes back with a reply has the reply of this session
\* whose sequence number is the one of its own request.
C7_OwnReply ==
    \A c \in Callers :
        pc[c] \in { "returned", "failed" } =>
            /\ reply[c].origin = "self"
            /\ reply[c].sequence = this_sequence_number[c]

\* the reply of a later request was returned while an earlier request still waits
C7_Witness ==
    \E c1, c2 \in Callers :
        /\ pc[c1] = "returned"
        /\ pc[c2] = "waiting"
        /\ this_sequence_number[c2] < this_sequence_number[c1]
        /\ replies[this_sequence_number[c2]] = NoReply

\* C8: the reply to a request whose call is still in progress (published, its
\* timeout not elapsed) is never treated as a reply nobody waits for.
C8_ReplyNeverUnmatched ==
    \A c \in Callers : InCall(c) => this_sequence_number[c] \notin unmatched

\* C9: a call waiting for a reply comes back; without a dispatched reply it comes
\* back only by the timeout, and the timeout is not raised before the reply
\* timeout has elapsed.
C9_TimesOut ==
    /\ \A c \in Callers :
          pc[c] = "waiting" ~> pc[c] \in { "timedout", "returned", "failed" }
    /\ [](\A c \in Callers :
            /\ pc[c] \in { "returned", "failed" } =>
                  this_sequence_number[c] \in dispatched
            /\ pc[c] = "timedout" => elapsed[c] >= ReplyTimeout)

\* a call timed out whose reply was never dispatched
C9_Witness ==
    \E c \in Callers :
        pc[c] = "timedout" /\ this_sequence_number[c] \notin dispatched

\* C10: after a call came back, with a reply or by the timeout, the map of
\* pending replies has no slot of its sequence number; with no call in progress
\* the map is empty.
C10_NoSlotLeft ==
    /\ \A c \in Callers :
          pc[c] \in { "returned", "failed", "timedout" } =>
              this_sequence_number[c] \notin DOMAIN replies
    /\ (\A c \in Callers : ~InCall(c)) => replies = EmptyMap

----------------------------------------------------------------------------
(* Properties of the replies to set-option and set-filter *)

\* the call that published s is over and no reply to s was dispatched: it timed out
TimedOutSequence(s) ==
    /\ s \in DOMAIN controls
    /\ s \notin dispatched
    /\ \A c \in Callers : InCall(c) => this_sequence_number[c] # s

\* the cached value of the first device option of that name
CachedValue(opts, option_name) ==
    opts[CHOOSE i \in 1..Len(opts) :
            /\ opts[i].name = option_name
            /\ \A k \in 1..(i - 1) : opts[k].name # option_name].value

\* j is dispatched by the notification thread
Dispatched(j) == Dispatching /\ ReplyNotificationOf(j)

\* C11: a successful set-option reply dispatched in READY after its caller timed
\* out is applied to the cached value, is stored in no slot of the pending
\* replies and is handled as a reply nobody waits for.
C11_LateReplyApplied ==
    [][\A j \in ReplyDocuments :
          ( /\ j.origin = "self"
            /\ j.status = "ok"
            /\ state = "READY"
            /\ TimedOutSequence(j.sequence)
            /\ Dispatched(j) )
          => /\ CachedValue(options', j.option_name) = j.value
             /\ replies' = replies
             /\ j.sequence \in unmatched']_vars

C14_FilterCacheFromDevice ==
    /\ [][filter_cache' # filter_cache =>
             \E j \in AnyReplyDocuments : j.id = "set-filter" /\ Dispatched(j)]_vars
    /\ [][\A c \in Callers :
             pc[c] = "returned" /\ pc'[c] = "done" => filter_cache' = reply[c].value]_vars

\* the controls published in this step
Published == DOMAIN controls' \ DOMAIN controls

\* the profiles a published open-streams control lists
Listed(control) ==
    { control.stream_profiles[k] : k \in DOMAIN control.stream_profiles }

\* the profiles of a list
ProfilesOf(list) == { list[i] : i \in 1..Len(list) }

\* the cached device options hold an option of that name
InCache(opts, option_name) == \E i \in 1..Len(opts) : opts[i].name = option_name

\* C21: a set-option call returns successfully only when the cached options hold
\* the option it was made for.
C21_UnknownTargetFails ==
    [][\A c \in Callers :
          pc[c] = "waiting" /\ pc'[c] = "returned"
          => InCache(options, reply'[c].option_name)]_vars

\* set_state passed the comparison at 53 and goes on to write the session
SetStateWrites ==
    /\ running["discovery"].op = "set_state"
    /\ running["discovery"].seen # running["discovery"].new_state

\* a handler passed the check of _state and goes on to write the session
HandlerWrites ==
    /\ running["notifications"].op # "none"
    /\ running["notifications"].seen = "INITIALIZING"

\* C27: the cached session state is read and written under a session lock, so
\* set_state on the discovery thread and a handler on the notification thread
\* are never inside it at the same time when one of them writes it.
C27_SessionGroupExclusive ==
    ~(/\ running["discovery"].op # "none"
      /\ running["notifications"].op # "none"
      /\ SetStateWrites \/ HandlerWrites)

\* C22: a document whose id has no handler (an open-streams reply) changes
\* nothing of the cached session, leaves the notification thread dispatching, and
\* when it is the reply to a pending request of this session it is stored in
\* the slot of that request.
C22_UnknownIdIgnored ==
    [][\A j \in OpenReplyDocuments :
          Dispatched(j)
          => /\ session_vars' = session_vars
             /\ filter_cache' = filter_cache
             /\ last_applied' = last_applied
             /\ Dispatching'
             /\ j.origin = "self" /\ j.sequence \in DOMAIN replies
                   => replies'[j.sequence] = j]_vars

\* the application got the reply to its open-streams control
C22_Witness ==
    /\ pc[AppThread] = "returned"
    /\ reply[AppThread].id = "open-streams"
    /\ reply[AppThread].origin = "self"
    /\ options = DeviceOptionsPayload

\* C23: a slot of the pending replies holds nothing or a reply of this session's
\* control writer with the slot's sequence number; it is filled only in the
\* dispatch of such a document, and the dispatch of a reply to another client
\* changes no slot and wakes no caller, whatever its sequence number.
C23_SlotFilledByOwnReply ==
    /\ [](\A s \in DOMAIN replies :
             replies[s] # NoReply
             => replies[s].origin = "self" /\ replies[s].sequence = s)
    /\ [][\A s \in DOMAIN replies \cap DOMAIN replies' :
             replies'[s] # replies[s]
             => \E j \in AnyReplyDocuments :
                   /\ j.origin = "self" /\ j.sequence = s
                   /\ Dispatched(j) /\ replies'[s] = j]_vars
    /\ [][\A j \in AnyReplyDocuments :
             j.origin = "other" /\ Dispatched(j)
             => replies' = replies /\ pc' = pc /\ reply' = reply]_vars

\* a request with sequence number 1 is pending, no reply to this session was
\* dispatched, and a reply to another client with that number was applied
C23_Witness ==
    /\ 1 \in DOMAIN replies
    /\ replies[1] = NoReply
    /\ dispatched = {}
    /\ last_applied # {}

\* C24: the control published by open lists the profiles of the call and the
\* profiles recorded as open by the earlier successful open calls.
C24_OpenListsAlreadyOpen ==
    [][\A s \in Published :
          ~controls'[s].reset
          => Listed(controls'[s]) =
                ProfilesOf(running'["application"].profiles)
                   \cup ProfilesOf(open_profiles_list)]_vars

\* C25: the control published by close has reset = true and lists exactly the
\* profiles recorded as open that are not among those of the call.
C25_CloseKeepsTheRest ==
    [][\A s \in Published :
          running'["application"].op = "close"
          => /\ controls'[s].reset
             /\ Listed(controls'[s]) =
                   ProfilesOf(open_profiles_list)
                      \ ProfilesOf(running'["application"].profiles)]_vars

\* C30: during an open call the list of open profiles changes in one step only,
\* the one after write_control_message returned with a successful reply, and
\* there the profiles of the call are appended.
C30_FailedOpenLeavesList ==
    [][open_profiles_list' # open_profiles_list /\ running'["application"].op = "open"
          => /\ pc[AppThread] = "returned"
             /\ reply[AppThread].status = "ok"
             /\ reply[AppThread].origin = "self"
             /\ reply[AppThread].id = "open-streams"
             /\ open_profiles_list' =
                   open_profiles_list \o running["application"].profiles]_vars

\* an open call recorded its profiles, and the next one got an error reply
C30_Witness ==
    /\ pc[AppThread] = "failed"
    /\ running["application"].op = "open"
    /\ Len(open_profiles_list) = 2

\* how often the profile is in the list
Occurrences(list, profile) == Cardinality({ i \in 1..Len(list) : list[i] = profile })

\* the application thread enters a call in this step
CallBegins == Open(AppThread) \/ Close(AppThread)

\* C31: the step in which close begins takes one occurrence per given profile
\* out of the list of open profiles, whether the request is then published or
\* the call throws, and the list stays so until the call is over, whatever its
\* outcome.
C31_CloseErasesFirst ==
    /\ [][CallBegins /\ running'["application"].op = "close"
             => \A profile \in Profiles :
                   LET had == Occurrences(open_profiles_list, profile)
                       given == Occurrences(running'["application"].profiles, profile)
                   IN Occurrences(open_profiles_list', profile) =
                         IF had > given THEN had - given ELSE 0]_vars
    /\ [][running["application"].op = "close" /\ ~CallBegins
             => open_profiles_list' = open_profiles_list]_vars

\* a close was rejected for two open profiles of one stream: the list is what
\* the erasure left, and it is not restored
C31_Witness ==
    /\ pc[AppThread] = "rejected"
    /\ running["application"] = [op |-> "close", profiles |-> << DepthProfile >>]
    /\ open_profiles_list = << ColorProfile, ColorProfile >>

\* C32: whenever the handler of calibration-changed goes through the streams,
\* every entry of the stream map has its stream object.
C32_HandlersSeeStreamObjects ==
    [][CalibrationChanged => \A k \in DOMAIN streams : streams[k] # NoStream]_vars

\* C33: a stream-header handled in INITIALIZING when as many headers are recorded
\* as streams are expected (before the device-header: none) is rejected, and
\* nothing of the session changes: no entry of the stream map, no record of a
\* received header, no stream object, no reader.
C33_ExcessHeaderRejected ==
    [][/\ state = "INITIALIZING"
       /\ MapSize(stream_header_received) >= n_streams_expected
       /\ StreamHeader
       => /\ last_result' = "rejected"
          /\ session_vars' = session_vars
          /\ first_fragment' = first_fragment]_vars

\* a stream-header came before the device-header and was rejected
C33_Witness ==
    /\ state = "INITIALIZING"
    /\ ~device_header_received
    /\ n_streams_expected = 0
    /\ last_result = "rejected"
    /\ streams = EmptyMap
    /\ stream_header_received = EmptyMap

C35_OneOptionPerName ==
    \A i, k \in 1..Len(options) : options[i].name = options[k].name => i = k

\* C36: set_state called with the state the session is in changes nothing: the
\* received data, the buffered fragments, the streams and both readers stay.
C36_SameStateNoEffect ==
    /\ [][state = "OFFLINE" /\ DiscoveryLost
             => session_vars' = session_vars /\ first_fragment' = first_fragment]_vars
    /\ [][state = "INITIALIZING" /\ DiscoveryRestored
             => session_vars' = session_vars /\ first_fragment' = first_fragment]_vars

\* set_state( INITIALIZING ) was called in INITIALIZING after the device-header:
\* what was received is still there
C36_Witness ==
    /\ state = "INITIALIZING"
    /\ last_result = "none"
    /\ device_header_received
    /\ ~device_options_received

\* C39: while the options watcher is paused, the updater thread begins no poll of
\* the registered options: every call of update_options that goes on to query them
\* begins with the paused flag clear.
C39_NoPollWhilePaused == [][PollBegins /\ ~should_stop => ~paused]_vars

\* C40: subscribers are notified only with options that had a last known value
\* and whose polled value differs from it (a value that can no longer be queried
\* counts as null); the first poll of the thread and a poll that changes nothing
\* raise no notification.
C40_NotifiedOnlyOnChange ==
    [][AfterPoll /\ ~should_stop /\ updated_options # EmptyMap =>
          \A id \in DOMAIN updated_options :
              /\ updated_options[id].was # NoValue
              /\ updated_options[id].was # updated_options[id].now]_vars

\* C37: whenever the watcher has a subscriber and a registered option and is not
\* being destroyed, and no call on it is in progress, its updater thread exists
\* and has not left thread_loop.
C37_UpdaterRunsWhenNeeded ==
    ~should_stop /\ owner_pc = "idle" => updater = "thread" /\ updater_pc # "ended"

\* C38: a call of stop() that waits for the updater thread always returns: once
\* the owner joins, the thread leaves thread_loop and the join ends, whatever the
\* interleaving of the notification with the waits of the thread, paused or not.
C38_StopTerminates == owner_pc = "joining" ~> owner_pc # "joining"

\* C26: in READY a successfully applied set-option reply, query-option reply or
\* query-options notification, of this client or of another, leaves its value as
\* the cached value of the option, and the cached options change in no other
\* step: the cached value is that of the last such document dispatched.
C26_LastAppliedWins ==
    /\ [](\A v \in last_applied :
             CachedValue(options, DeviceOptionsPayload[1].name) = v)
    /\ [][options' # options =>
             \E j \in AnyReplyDocuments : Applied(j) /\ Dispatched(j)]_vars

\* a caller's set-option reply was applied, then a document of another client
\* with another value: the cached value is the later one
C26_Witness ==
    \E c \in Callers :
        /\ pc[c] = "returned"
        /\ reply[c].id = "set-option" /\ reply[c].status = "ok"
        /\ reply[c].wellformed /\ reply[c].value = 2
        /\ dispatched = { this_sequence_number[c] }
        /\ last_applied = { 1 }
        /\ CachedValue(options, reply[c].option_name) = 1

\* C17: when the handler of a document throws, the notification thread goes on
\* dispatching, the cached values and the slots of other requests are as before,
\* and a document that is the reply to a pending request of this session is
\* stored in the slot of that request.
C17_HandlerFailureContained ==
    [][\A j \in AnyReplyDocuments :
          HandlerThrows(state, options, streams, j) /\ Dispatched(j)
          => /\ notifications_reader' > 0 /\ ~hung'
             /\ options' = options
             /\ filter_cache' = filter_cache
             /\ DOMAIN replies' = DOMAIN replies
             /\ \A s \in DOMAIN replies :
                   j.origin # "self" \/ s # j.sequence => replies'[s] = replies[s]
             /\ j.origin = "self" /\ j.sequence \in DOMAIN replies
                   => replies'[j.sequence] = j]_vars

\* a caller came back with a reply whose handler had thrown, another still waits
C17_Witness ==
    \E c1, c2 \in Callers :
        /\ pc[c1] = "returned"
        /\ ~reply[c1].wellformed
        /\ pc[c2] = "waiting"
        /\ replies[this_sequence_number[c2]] = NoReply

====
